---- MODULE Spec2Model ----
(***************************************************************************)
(* Model of faine: the exploration tree (src/src/tree.rs), the runner loop *)
(* (src/src/runner.rs), the thread-local engine slot (src/src/__private.rs)*)
(* and the instrumentation primitives (src/src/macros.rs,                  *)
(* src/src/functions.rs).                                                  *)
(*                                                                         *)
(* Conventions.  Option<T> is a sequence of length at most one: None is    *)
(* <<>> and Some(x) is <<x>>.  NodeId values are the 0-based indices of    *)
(* the Rust Vec<Node>; the TLA+ sequence `nodes` holds node id at position *)
(* id + 1.  A HashMap<Label, NodeId> is a function whose DOMAIN is the set *)
(* of keys.                                                                *)
(***************************************************************************)
EXTENDS Integers, Sequences, FiniteSets, TLC

(***************************************************************************)
(* Bounds of the model.                                                    *)
(***************************************************************************)
\* longest closure body (number of instrumented statements)
MaxLen == 3
\* longest closure body of the sessions checked for termination
MaxLiveLen == 2
\* longest closure body that mixes the two override macros
MaxSideLen == 2
\* longest closure body of the two-thread runs
MaxThreadLen == 2
\* longest closure body with failpoint names computed at run time
MaxAnyLen == 2
\* longest period of the names such a closure computes
MaxAnyPeriod == 4

\* failpoint names used by the closures of the model
Names == {"a", "b"}

(***************************************************************************)
(* common.rs                                                               *)
(***************************************************************************)
Skip == "Skip"
Activate == "Activate"
Branch == {Skip, Activate}

Failpoint(name) == <<"Failpoint", name>>
Finished == <<"Finished">>

(***************************************************************************)
(* Option<T>                                                               *)
(***************************************************************************)
None == << >>
Some(x) == <<x>>
is_none(o) == Len(o) = 0
is_some(o) == Len(o) = 1
unwrap(o) == o[1]

(***************************************************************************)
(* collections.rs: BranchVec<T> is [T; 2], Skip at 0 and Activate at 1     *)
(* (positions 1 and 2 of the TLA+ sequence).                               *)
(***************************************************************************)
BranchVecDefault(d) == <<d, d>>

\* both branches share one slot
BranchVecIndexSame(branch) == 1

BranchVecIndex(branch) == IF branch = Skip THEN 1 ELSE 2

(***************************************************************************)
(* options.rs                                                              *)
(***************************************************************************)
OptionsDefault == [branch_preference |-> Activate]

(***************************************************************************)
(* tree.rs: ForwardEdges, BackwardEdge, Node                               *)
(***************************************************************************)
ForwardEdgesDefault == [nodes |-> << >>, num_completely_visited |-> 0]

Max(a, b) == IF a >= b THEN a ELSE b

MapLen(m) == Cardinality(DOMAIN m)

\* without max(1): an empty fan-out counts as exhausted
ForwardEdges_is_completely_visited_NoMax(fe) ==
    fe.num_completely_visited = MapLen(fe.nodes)

ForwardEdges_is_completely_visited(fe) ==
    fe.num_completely_visited = Max(MapLen(fe.nodes), 1)

BackwardEdge(node_id, branch, label) ==
    [node_id |-> node_id, branch |-> branch, label |-> label]

\* a node is created without its back-edge
NodeNewOrphan(parent_edge) ==
    [parent |-> None,
     nexts |-> BranchVecDefault(ForwardEdgesDefault),
     is_final |-> FALSE]

\* a node is created final
NodeNewFinal(parent_edge) ==
    [parent |-> parent_edge,
     nexts |-> BranchVecDefault(ForwardEdgesDefault),
     is_final |-> TRUE]

NodeNew(parent_edge) ==
    [parent |-> parent_edge,
     nexts |-> BranchVecDefault(ForwardEdgesDefault),
     is_final |-> FALSE]

Nexts(node, branch) == node.nexts[BranchVecIndex(branch)]

\* one exhausted fan-out is taken to exhaust the node
Node_is_completely_visited_Either(node) ==
    \/ node.is_final
    \/ ForwardEdges_is_completely_visited(Nexts(node, Activate))
    \/ ForwardEdges_is_completely_visited(Nexts(node, Skip))

Node_is_completely_visited(node) ==
    \/ node.is_final
    \/ /\ ForwardEdges_is_completely_visited(Nexts(node, Activate))
       /\ ForwardEdges_is_completely_visited(Nexts(node, Skip))

(***************************************************************************)
(* tree.rs: Tree                                                           *)
(***************************************************************************)
TreeNew(options) ==
    [options |-> options,
     nodes |-> << >>,
     roots |-> ForwardEdgesDefault,
     current_edge |-> None,
     non_determinism_witnessed |-> FALSE]

\* start builds a new tree
TreeStartNew(t) == TreeNew(t.options)

TreeStart(t) == [t EXCEPT !.current_edge = None]

\* every failpoint is looked up in the root fan-out, whatever the cursor
ParentNextsAtRoot(t) == t.roots

\* the fan-out the cursor points into
ParentNexts(t) ==
    IF is_some(t.current_edge)
    THEN Nexts(t.nodes[unwrap(t.current_edge).node_id + 1],
               unwrap(t.current_edge).branch)
    ELSE t.roots

\* t with the fan-out the cursor points into replaced by fe
WithParentNexts(t, fe) ==
    IF is_some(t.current_edge)
    THEN [t EXCEPT !.nodes[unwrap(t.current_edge).node_id + 1]
                      .nexts[BranchVecIndex(unwrap(t.current_edge).branch)] = fe]
    ELSE [t EXCEPT !.roots = fe]

\* the new label replaces the labels the fan-out holds
TreeAdvanceReplaces(t, label) ==
    LET new_node_id == Len(t.nodes)
        parent_nexts == ParentNexts(t)
    IN  IF label \in DOMAIN parent_nexts.nodes
        THEN [tree |-> t, id |-> parent_nexts.nodes[label]]
        ELSE LET witnessed == IF MapLen(parent_nexts.nodes) >= 1
                              THEN TRUE
                              ELSE t.non_determinism_witnessed
                 inserted == [parent_nexts EXCEPT
                                 !.nodes = (label :> new_node_id)]
                 t1 == [WithParentNexts(t, inserted) EXCEPT
                           !.non_determinism_witnessed = witnessed]
             IN  [tree |-> [t1 EXCEPT !.nodes =
                                Append(@, NodeNew(t.current_edge))],
                  id |-> new_node_id]

\* the flag is never set
TreeAdvanceNeverWitnesses(t, label) ==
    LET new_node_id == Len(t.nodes)
        parent_nexts == ParentNexts(t)
    IN  IF label \in DOMAIN parent_nexts.nodes
        THEN [tree |-> t, id |-> parent_nexts.nodes[label]]
        ELSE LET inserted == [parent_nexts EXCEPT
                                 !.nodes = (label :> new_node_id) @@ @]
                 t1 == WithParentNexts(t, inserted)
             IN  [tree |-> [t1 EXCEPT !.nodes =
                                Append(@, NodeNew(t.current_edge))],
                  id |-> new_node_id]

\* the flag is set only when the fan-out already holds two labels
TreeAdvanceWitnessLate(t, label) ==
    LET new_node_id == Len(t.nodes)
        parent_nexts == ParentNexts(t)
    IN  IF label \in DOMAIN parent_nexts.nodes
        THEN [tree |-> t, id |-> parent_nexts.nodes[label]]
        ELSE LET witnessed == IF MapLen(parent_nexts.nodes) >= 2
                              THEN TRUE
                              ELSE t.non_determinism_witnessed
                 inserted == [parent_nexts EXCEPT
                                 !.nodes = (label :> new_node_id) @@ @]
                 t1 == [WithParentNexts(t, inserted) EXCEPT
                           !.non_determinism_witnessed = witnessed]
             IN  [tree |-> [t1 EXCEPT !.nodes =
                                Append(@, NodeNew(t.current_edge))],
                  id |-> new_node_id]

\* advance returns the tree after the call and the node id it yields
TreeAdvance(t, label) ==
    LET new_node_id == Len(t.nodes)
        parent_nexts == ParentNexts(t)
    IN  IF label \in DOMAIN parent_nexts.nodes
        THEN [tree |-> t, id |-> parent_nexts.nodes[label]]
        ELSE LET witnessed == IF MapLen(parent_nexts.nodes) >= 1
                              THEN TRUE
                              ELSE t.non_determinism_witnessed
                 inserted == [parent_nexts EXCEPT
                                 !.nodes = (label :> new_node_id) @@ @]
                 t1 == [WithParentNexts(t, inserted) EXCEPT
                           !.non_determinism_witnessed = witnessed]
             IN  [tree |-> [t1 EXCEPT !.nodes =
                                Append(@, NodeNew(t.current_edge))],
                  id |-> new_node_id]

\* the payloads of the two assert! of finalize
AssertFailedParentNexts ==
    "assertion failed: parent_nexts.num_completely_visited <= parent_nexts.nodes.len()"
AssertFailedRoots ==
    "assertion failed: self.roots.num_completely_visited <= self.roots.nodes.len()"

\* the loop of finalize; status "Panic" is a failed assert!, payload its
\* message
RECURSIVE BubbleUp(_, _)
BubbleUp(t, current_edge) ==
    IF is_some(current_edge)
    THEN LET edge == unwrap(current_edge)
             bi == BranchVecIndex(edge.branch)
             parent_nexts == t.nodes[edge.node_id + 1].nexts[bi]
         IN  IF ~(parent_nexts.num_completely_visited
                     <= MapLen(parent_nexts.nodes))
             THEN [tree |-> t, status |-> "Panic",
                   payload |-> Some(AssertFailedParentNexts)]
             ELSE LET t1 == [t EXCEPT !.nodes[edge.node_id + 1].nexts[bi]
                                        .num_completely_visited = @ + 1]
                      parent_node == t1.nodes[edge.node_id + 1]
                  IN  IF Node_is_completely_visited(parent_node)
                      THEN BubbleUp(t1, parent_node.parent)
                      ELSE [tree |-> t1, status |-> "Continue",
                            payload |-> None]
    ELSE LET t1 == [t EXCEPT !.roots.num_completely_visited = @ + 1]
         IN  IF ~(t1.roots.num_completely_visited <= MapLen(t1.roots.nodes))
             THEN [tree |-> t1, status |-> "Panic",
                   payload |-> Some(AssertFailedRoots)]
             ELSE IF ForwardEdges_is_completely_visited(t1.roots)
                  THEN [tree |-> t1, status |-> "Stop", payload |-> None]
                  ELSE [tree |-> t1, status |-> "Continue", payload |-> None]

TreeFinalize(t, label) ==
    LET adv == TreeAdvance(t, label)
        t1 == [adv.tree EXCEPT !.nodes[adv.id + 1].is_final = TRUE]
    IN  BubbleUp(t1, t1.current_edge)

\* the preference is ignored
BranchOrderFixed(branch_preference) == <<Activate, Skip>>

\* the order in which visit tries the branches

BranchOrder(branch_preference) ==
    IF branch_preference = Activate
    THEN <<Activate, Skip>>
    ELSE <<Skip, Activate>>

\* the exhaustion of the fan-outs is not looked at
OpenBranchesUnchecked(t, id) == BranchOrder(t.options.branch_preference)

\* the branches of node id whose fan-out is not exhausted, in trial order
OpenBranches(t, id) ==
    SelectSeq(BranchOrder(t.options.branch_preference),
              LAMBDA b : ~ForwardEdges_is_completely_visited(
                              Nexts(t.nodes[id + 1], b)))

\* visit returns the tree after the call and the branch; branch
\* "unreachable" is the unreachable!() panic
TreeVisit(t, label) ==
    LET adv == TreeAdvance(t, label)
        open == OpenBranches(adv.tree, adv.id)
    IN  IF open # << >>
        THEN [tree |-> [adv.tree EXCEPT !.current_edge =
                            Some(BackwardEdge(adv.id, open[1], label))],
              branch |-> open[1]]
        ELSE [tree |-> adv.tree, branch |-> "unreachable"]

(***************************************************************************)
(* The tested closure.  Its body is straight-line instrumented code: a     *)
(* sequence of statements, each an instrumentation primitive of macros.rs  *)
(* or a call of enable_failpoints (functions.rs).  "removed" stands for a  *)
(* failpoint call site taken out of the source (a plain statement).        *)
(***************************************************************************)
InjectReturn(name, ret) == [op |-> "inject_return", name |-> name, ret |-> ret]
InjectOverride(name) == [op |-> "inject_override", name |-> name]
InjectOverrideWithSideEffect(name) ==
    [op |-> "inject_override_with_side_effect", name |-> name]
EnableFailpoints(enable) == [op |-> "enable_failpoints", enable |-> enable]
Removed == [op |-> "removed"]

\* the statements that may stand at position i of a body; the early return
\* at position i returns Err(i)
Statements(i) ==
    {InjectReturn(n, i) : n \in Names}
        \cup {InjectOverride(n) : n \in Names}
        \cup {EnableFailpoints(e) : e \in BOOLEAN}

\* tests/main.rs: the closure of test_enable_disable
TestEnableDisable ==
    <<InjectReturn("1", 1), EnableFailpoints(FALSE), InjectReturn("2", 2),
      EnableFailpoints(TRUE), InjectReturn("3", 3)>>

GeneratedBodies == UNION {{b \in [1..n -> UNION {Statements(i) : i \in 1..n}] :
                     \A i \in 1..n : b[i] \in Statements(i)} : n \in 0..MaxLen}

\* the statements of the closures that mix the two override macros
SideEffectStatements ==
    {InjectOverrideWithSideEffect(n) : n \in Names}
        \cup {InjectOverride(n) : n \in Names}
        \cup {EnableFailpoints(FALSE)}

\* the closures with at least one inject_override_with_side_effect!
SideEffectBodies ==
    UNION {{b \in [1..n -> SideEffectStatements] :
               \E i \in 1..n : b[i].op = "inject_override_with_side_effect"} :
           n \in 1..MaxSideLen}

\* a closure with a nested pair of disable and enable calls
TestNestedDisable ==
    <<EnableFailpoints(FALSE), EnableFailpoints(FALSE), EnableFailpoints(TRUE),
      InjectReturn("1", 1), EnableFailpoints(TRUE)>>

Bodies ==
    GeneratedBodies \cup SideEffectBodies
        \cup {TestEnableDisable, TestNestedDisable}

\* the value of the enabled flag when statement i of body b is reached in a
\* run that began with the flag set to e0
RECURSIVE EnabledAt(_, _, _)
EnabledAt(b, i, e0) ==
    IF i <= 1 THEN e0
    ELSE IF b[i - 1].op = "enable_failpoints" THEN b[i - 1].enable
         ELSE EnabledAt(b, i - 1, e0)

\* statement i of body b is a failpoint call site that lies between an
\* enable_failpoints(false) and a later enable_failpoints(true)
Enclosed(b, i) ==
    /\ b[i].op \in {"inject_return", "inject_override",
                   "inject_override_with_side_effect"}
    /\ ~EnabledAt(b, i, TRUE)
    /\ \E j \in (i + 1)..Len(b) : b[j] = EnableFailpoints(TRUE)

\* body b with the enclosed failpoint call sites removed
WithoutDisabledSites(b) ==
    [i \in 1..Len(b) |-> IF Enclosed(b, i) THEN Removed ELSE b[i]]

(***************************************************************************)
(* The test body: a sequence of calls, each either                         *)
(*   Runner::default().with_branch_preference(p).run(closure)   ("run") or *)
(*   closure()  outside of any runner                        ("direct").   *)
(* `sites` says whether the closure is called as written or with its       *)
(* disabled call sites removed.                                            *)
(***************************************************************************)
Calls ==
    [how : {"run"}, branch_preference : Branch, sites : {"written", "removed"}]
        \cup [how : {"direct"}, branch_preference : {Activate},
              sites : {"written"}]

RunCall(p, sites) == [how |-> "run", branch_preference |-> p, sites |-> sites]
DirectCall == [how |-> "direct", branch_preference |-> Activate,
               sites |-> "written"]

OtherBranch(p) == IF p = Activate THEN Skip ELSE Activate

\* the test bodies of the model: a session followed by a second call that
\* repeats it, changes the preference, removes the disabled call sites, or
\* calls the closure directly; and a direct call followed by a session
Plans ==
    UNION {{<<RunCall(p, "written"), c>> :
                c \in {RunCall(p, "written"),
                       RunCall(OtherBranch(p), "written"),
                       RunCall(p, "removed"),
                       DirectCall}} : p \in Branch}
        \cup {<<DirectCall, RunCall(p, "written")>> : p \in Branch}

\* the test bodies that make one call
SinglePlans == {<<c>> : c \in Calls}

VARIABLES
    closure,     \* the body of the tested closure
    plan,        \* the calls the test body has still to make
    FAILPOINTS,  \* __private.rs: the thread-local Option<Box<State>>
    pc,          \* where the thread is
    cur,         \* the call in progress
    ip,          \* the statement of the body to execute next
    trace,       \* the (label, branch) pairs of the visit calls of this run
    effects,     \* what each primitive of this run did
    runs,        \* the finished runs of the session in progress
    done,        \* the finished calls of the test body
    panic,       \* the message of the panic that unwound the thread, if any
    events,      \* the visit calls and expression evaluations of this run
    other,       \* the state of the thread that is not scheduled, if any
    tid          \* the thread that is scheduled

vars == <<closure, plan, FAILPOINTS, pc, cur, ip, trace, effects, runs, done,
          panic, events, other, tid>>

Body == IF cur.sites = "removed" THEN WithoutDisabledSites(closure) ELSE closure

\* the thread before the test body starts: no engine installed; the closure
\* is called with call sites removed only if it has enclosed call sites
InitWith(bodies, plans) ==
    /\ closure \in bodies
    /\ plan \in plans
    /\ \A i \in 1..Len(plan) :
           plan[i].sites = "removed" => WithoutDisabledSites(closure) # closure
    /\ FAILPOINTS = None
    /\ pc = "test"
    /\ cur = [how |-> "none", branch_preference |-> Activate,
              sites |-> "written"]
    /\ ip = 0
    /\ trace = << >>
    /\ effects = << >>
    /\ runs = << >>
    /\ done = << >>
    /\ panic = None
    /\ events = << >>
    /\ other = None
    /\ tid = 1

Init == InitWith(Bodies, Plans)

(***************************************************************************)
(* runner.rs: Runner::run                                                  *)
(***************************************************************************)
\* with_branch_preference
RunnerOptions(call) ==
    [OptionsDefault EXCEPT !.branch_preference = call.branch_preference]

\* the State installed by run
StateNew(options) == [enabled |-> TRUE, tree |-> TreeNew(options)]

DoubleInit == "failpoints state double initialization"
Unreachable == "internal error: entered unreachable code"
\* the payloads a panic of finalize can carry
AssertFailed == {AssertFailedParentNexts, AssertFailedRoots}

\* the install without the assert
RunEnterNoAssert(slot, options) ==
    [slot |-> Some(StateNew(options)), ok |-> TRUE]

\* lines 66-72: the assert on the slot, and the install if it passes
RunEnter(slot, options) ==
    IF is_none(slot)
    THEN [slot |-> Some(StateNew(options)), ok |-> TRUE]
    ELSE [slot |-> slot, ok |-> FALSE]

\* the test body calls Runner::run
RunInstall ==
    /\ pc = "test"
    /\ plan # << >>
    /\ Head(plan).how = "run"
    /\ LET entered == RunEnter(FAILPOINTS, RunnerOptions(Head(plan)))
       IN  /\ FAILPOINTS' = entered.slot
           /\ IF entered.ok
              THEN /\ pc' = "start"
                   /\ cur' = Head(plan)
                   /\ plan' = Tail(plan)
                   /\ panic' = panic
              ELSE /\ pc' = "panicked"
                   /\ panic' = Some(DoubleInit)
                   /\ UNCHANGED <<cur, plan>>
    /\ UNCHANGED <<closure, ip, trace, effects, runs, done, events, other, tid>>

\* lines 75-84: tree.start(), then func() is entered
RunStart ==
    /\ pc = "start"
    /\ FAILPOINTS' = Some([unwrap(FAILPOINTS) EXCEPT !.tree = TreeStart(@)])
    /\ pc' = "func"
    /\ ip' = 1
    /\ trace' = << >>
    /\ effects' = << >>
    /\ events' = << >>
    /\ UNCHANGED <<closure, plan, cur, runs, done, panic, other, tid>>

\* lines 86-100: finalize(Label::Finished) and the match on its status; the
\* run is logged with the size of the tree it leaves
RunFinalize ==
    /\ pc = "finalize"
    /\ LET fin == TreeFinalize(unwrap(FAILPOINTS).tree, Finished)
       IN  /\ FAILPOINTS' = Some([unwrap(FAILPOINTS) EXCEPT !.tree = fin.tree])
           /\ runs' = Append(runs, [trace |-> trace,
                                    result |-> effects[Len(effects)].value,
                                    status |-> fin.status,
                                    nodes |-> Len(fin.tree.nodes),
                                    finals |-> Len(SelectSeq(fin.tree.nodes,
                                                 LAMBDA n : n.is_final))])
           /\ pc' = CASE fin.status = "Continue" -> "start"
                      [] fin.status = "Stop" -> "teardown"
                      [] OTHER -> "panicked"
           /\ panic' = IF fin.status = "Panic" THEN fin.payload ELSE panic
    /\ UNCHANGED <<closure, plan, cur, ip, trace, effects, done, events, other,
                   tid>>

\* lines 103-107: take the state out of the slot and return Ok(())
RunTeardown ==
    /\ pc = "teardown"
    /\ FAILPOINTS' = None
    /\ done' = Append(done, [call |-> cur, runs |-> runs])
    /\ runs' = << >>
    /\ pc' = "test"
    /\ UNCHANGED <<closure, plan, cur, ip, trace, effects, panic, events, other,
                   tid>>

\* the test body calls the closure outside of Runner::run
CallDirect ==
    /\ pc = "test"
    /\ plan # << >>
    /\ Head(plan).how = "direct"
    /\ cur' = Head(plan)
    /\ plan' = Tail(plan)
    /\ pc' = "func"
    /\ ip' = 1
    /\ trace' = << >>
    /\ effects' = << >>
    /\ events' = << >>
    /\ UNCHANGED <<closure, FAILPOINTS, runs, done, panic, other, tid>>

(***************************************************************************)
(* macros.rs and functions.rs: the statements of the closure               *)
(***************************************************************************)
Ok == <<"Ok">>
Err(n) == <<"Err", n>>

\* the enabled flag is not consulted
FailpointBranchIgnoresEnabled(slot, label) ==
    IF is_some(slot)
    THEN LET v == TreeVisit(unwrap(slot).tree, label)
         IN  [slot |-> Some([unwrap(slot) EXCEPT !.tree = v.tree]),
              branch |-> v.branch,
              visited |-> TRUE]
    ELSE [slot |-> slot, branch |-> Skip, visited |-> FALSE]

\* branch starts as Activate
FailpointBranchStartsActivate(slot, label) ==
    IF is_some(slot) /\ unwrap(slot).enabled
    THEN LET v == TreeVisit(unwrap(slot).tree, label)
         IN  [slot |-> Some([unwrap(slot) EXCEPT !.tree = v.tree]),
              branch |-> v.branch,
              visited |-> TRUE]
    ELSE [slot |-> slot, branch |-> Activate, visited |-> FALSE]

\* a failpoint passed while disabled enables failpoints again
FailpointBranchReenables(slot, label) ==
    IF is_some(slot) /\ unwrap(slot).enabled
    THEN LET v == TreeVisit(unwrap(slot).tree, label)
         IN  [slot |-> Some([unwrap(slot) EXCEPT !.tree = v.tree]),
              branch |-> v.branch,
              visited |-> TRUE]
    ELSE [slot |-> IF is_some(slot)
                   THEN Some([unwrap(slot) EXCEPT !.enabled = TRUE])
                   ELSE slot,
          branch |-> Skip,
          visited |-> FALSE]

\* the common head of every inject_* macro: branch starts as Skip, and
\* visit is called only if a state is installed and enabled
FailpointBranch(slot, label) ==
    IF is_some(slot) /\ unwrap(slot).enabled
    THEN LET v == TreeVisit(unwrap(slot).tree, label)
         IN  [slot |-> Some([unwrap(slot) EXCEPT !.tree = v.tree]),
              branch |-> v.branch,
              visited |-> TRUE]
    ELSE [slot |-> slot, branch |-> Skip, visited |-> FALSE]

\* what the statement at ip did: its outcome, the value a return yields,
\* and whether it called visit
Effect(out, value, visited) ==
    [at |-> ip, out |-> out, value |-> value, visited |-> visited]

\* the closure returns value res: to Runner::run, or to the test body
FuncReturns(res, tr) ==
    IF cur.how = "run"
    THEN /\ pc' = "finalize"
         /\ done' = done
    ELSE /\ pc' = "test"
         /\ done' = Append(done,
                [call |-> cur,
                 runs |-> <<[trace |-> tr, result |-> res,
                             status |-> "none"]>>])

\* the entries of events: a call of visit, an evaluation of the wrapped
\* expression, both by the statement at ip
VisitEvent == [ev |-> "visit", at |-> ip]
EvalEvent == [ev |-> "eval", at |-> ip]

VisitEvents(d) == IF d.visited THEN <<VisitEvent>> ELSE << >>

\* inject_return!(name, ret)
StepInjectReturn ==
    /\ pc = "func"
    /\ ip <= Len(Body)
    /\ Body[ip].op = "inject_return"
    /\ LET label == Failpoint(Body[ip].name)
           d == FailpointBranch(FAILPOINTS, label)
       IN  /\ FAILPOINTS' = d.slot
           /\ trace' = IF d.visited
                       THEN Append(trace, [label |-> label, branch |-> d.branch])
                       ELSE trace
           /\ CASE d.branch = Activate ->
                      /\ effects' = Append(effects,
                              Effect("return", Err(Body[ip].ret), d.visited))
                      /\ events' = events \o VisitEvents(d)
                      /\ ip' = ip
                      /\ panic' = panic
                      /\ FuncReturns(Err(Body[ip].ret),
                                     Append(trace, [label |-> label,
                                                    branch |-> d.branch]))
                [] d.branch = Skip ->
                      /\ effects' = Append(effects,
                              Effect("fallthrough", Ok, d.visited))
                      /\ events' = events \o VisitEvents(d)
                      /\ ip' = ip + 1
                      /\ UNCHANGED <<pc, done, panic>>
                [] OTHER ->
                      /\ pc' = "panicked"
                      /\ panic' = Some(Unreachable)
                      /\ events' = events \o VisitEvents(d)
                      /\ UNCHANGED <<effects, ip, done>>
    /\ UNCHANGED <<closure, plan, cur, runs, other, tid>>

\* the wrapped expression is evaluated in the Skip arm only
OverrideEvaluatesInSkipArm(side_effect, branch) == branch = Skip

\* whether the macro evaluates $input: inject_override in the Skip arm of
\* its match, inject_override_with_side_effect in `let res = $input`
\* before the match
OverrideEvaluates(side_effect, branch) == side_effect \/ branch = Skip

\* the named arm of inject_override! (side_effect = FALSE) and of
\* inject_override_with_side_effect! (side_effect = TRUE) for one label
InjectOverrideAt(label, side_effect) ==
    LET d == FailpointBranch(FAILPOINTS, label)
        evaluated == IF OverrideEvaluates(side_effect, d.branch)
                     THEN <<EvalEvent>> ELSE << >>
    IN  /\ FAILPOINTS' = d.slot
        /\ trace' = IF d.visited
                    THEN Append(trace, [label |-> label, branch |-> d.branch])
                    ELSE trace
        /\ CASE d.branch = Activate ->
                   /\ effects' = Append(effects, Effect("alt", Ok, d.visited))
                   /\ events' = events \o VisitEvents(d) \o evaluated
                   /\ ip' = ip + 1
                   /\ UNCHANGED <<pc, panic>>
             [] d.branch = Skip ->
                   /\ effects' = Append(effects, Effect("expr", Ok, d.visited))
                   /\ events' = events \o VisitEvents(d) \o evaluated
                   /\ ip' = ip + 1
                   /\ UNCHANGED <<pc, panic>>
             [] OTHER ->
                   /\ pc' = "panicked"
                   /\ panic' = Some(Unreachable)
                   /\ events' = events \o VisitEvents(d)
                   /\ UNCHANGED <<effects, ip>>
        /\ UNCHANGED <<closure, plan, cur, runs, done, other, tid>>

\* inject_override!(expr, name, alt)
StepInjectOverride ==
    /\ pc = "func"
    /\ ip <= Len(Body)
    /\ Body[ip].op = "inject_override"
    /\ InjectOverrideAt(Failpoint(Body[ip].name), FALSE)

\* inject_override_with_side_effect!(expr, name, alt)
StepInjectOverrideWithSideEffect ==
    /\ pc = "func"
    /\ ip <= Len(Body)
    /\ Body[ip].op = "inject_override_with_side_effect"
    /\ InjectOverrideAt(Failpoint(Body[ip].name), TRUE)

\* a state is installed by the call if there is none
enable_failpoints_installs(slot, enable) ==
    IF is_some(slot)
    THEN Some([unwrap(slot) EXCEPT !.enabled = enable])
    ELSE Some([enabled |-> enable, tree |-> TreeNew(OptionsDefault)])

\* functions.rs: the slot after enable_failpoints(enable)
enable_failpoints(slot, enable) ==
    IF is_some(slot)
    THEN Some([unwrap(slot) EXCEPT !.enabled = enable])
    ELSE slot

\* enable_failpoints(enable)
StepEnableFailpoints ==
    /\ pc = "func"
    /\ ip <= Len(Body)
    /\ Body[ip].op = "enable_failpoints"
    /\ FAILPOINTS' = enable_failpoints(FAILPOINTS, Body[ip].enable)
    /\ effects' = Append(effects, Effect("enable_failpoints", Ok, FALSE))
    /\ ip' = ip + 1
    /\ UNCHANGED <<closure, plan, pc, cur, trace, runs, done, panic, events,
                   other, tid>>

\* a statement without instrumentation
StepRemoved ==
    /\ pc = "func"
    /\ ip <= Len(Body)
    /\ Body[ip].op = "removed"
    /\ effects' = Append(effects, Effect("plain", Ok, FALSE))
    /\ ip' = ip + 1
    /\ UNCHANGED <<closure, plan, FAILPOINTS, pc, cur, trace, runs, done, panic,
                   events, other, tid>>

\* the end of the body: the closure returns Ok(())
StepEnd ==
    /\ pc = "func"
    /\ ip = Len(Body) + 1
    /\ effects' = Append(effects, Effect("end", Ok, FALSE))
    /\ FuncReturns(Ok, trace)
    /\ UNCHANGED <<closure, plan, FAILPOINTS, cur, ip, trace, runs, panic,
                   events, other, tid>>

Step ==
    \/ StepInjectReturn
    \/ StepInjectOverride
    \/ StepInjectOverrideWithSideEffect
    \/ StepEnableFailpoints
    \/ StepRemoved
    \/ StepEnd

Next ==
    \/ RunInstall
    \/ RunStart
    \/ Step
    \/ RunFinalize
    \/ RunTeardown
    \/ CallDirect

Spec == Init /\ [][Next]_vars

(***************************************************************************)
(* Runner::run called from inside the closure of a running session.        *)
(***************************************************************************)
\* lines 66-72 executed by a nested call: the same assert and install
NestedRun ==
    /\ pc = "func"
    /\ is_some(FAILPOINTS)
    /\ effects' = Append(effects, Effect("Runner::run", Ok, FALSE))
    /\ LET entered == RunEnter(FAILPOINTS, OptionsDefault)
       IN  /\ FAILPOINTS' = entered.slot
           /\ pc' = IF entered.ok THEN "start" ELSE "panicked"
           /\ panic' = IF entered.ok THEN panic ELSE Some(DoubleInit)
    /\ UNCHANGED <<closure, plan, cur, ip, trace, runs, done, events, other,
                   tid>>

NextNested == Next \/ NestedRun

SpecNested == Init /\ [][NextNested]_vars

\* one thread runs the test body; it takes its next step whenever it has one
\* the closures of the sessions checked for termination: the short ones
\* and the closure of test_enable_disable
LiveBodies == {b \in Bodies : Len(b) <= MaxLiveLen} \cup {TestEnableDisable}

LiveInit == InitWith(LiveBodies, SinglePlans)

LiveSpec == LiveInit /\ [][Next]_vars /\ WF_vars(Next)

(***************************************************************************)
(* A closure that panics while Runner::run runs it, in a test body that    *)
(* catches the unwinding and goes on to its next call.                     *)
(***************************************************************************)
ClosurePanic == "closure panicked"

\* the state is taken out of the slot while the panic unwinds
UnwindTakesState(slot) == None

\* runner.rs line 84: func() is called with nothing that catches or cleans
\* up; the slot when the panic has unwound Runner::run
Unwind(slot) == slot

\* the closure panics in a run of a session
ClosurePanics ==
    /\ pc = "func"
    /\ cur.how = "run"
    /\ FAILPOINTS' = Unwind(FAILPOINTS)
    /\ pc' = "panicked"
    /\ panic' = Some(ClosurePanic)
    /\ UNCHANGED <<closure, plan, cur, ip, trace, effects, runs, done, events,
                   other, tid>>

\* the test body catches the closure's panic and records the call as failed
CatchUnwind ==
    /\ pc = "panicked"
    /\ panic = Some(ClosurePanic)
    /\ pc' = "test"
    /\ done' = Append(done, [call |-> cur, runs |-> runs,
                             caught |-> ClosurePanic])
    /\ runs' = << >>
    /\ panic' = None
    /\ UNCHANGED <<closure, plan, FAILPOINTS, cur, ip, trace, effects, events,
                   other, tid>>

\* the short closures and the closure of test_enable_disable, in the test
\* bodies that make two calls
PanicInit == InitWith(LiveBodies, Plans)

NextPanic == Next \/ ClosurePanics \/ CatchUnwind

SpecPanic == PanicInit /\ [][NextPanic]_vars

(***************************************************************************)
(* Two threads.  FAILPOINTS is declared thread_local!, so each thread has  *)
(* a slot of its own.  The variables plan ... events hold the state of the *)
(* thread that is scheduled; `other` holds the state of the thread that is *)
(* not, and a context switch exchanges the two.  The threads call the same *)
(* closure.                                                                *)
(***************************************************************************)
\* the state of the scheduled thread
Scheduled ==
    [plan |-> plan, FAILPOINTS |-> FAILPOINTS, pc |-> pc, cur |-> cur,
     ip |-> ip, trace |-> trace, effects |-> effects, runs |-> runs,
     done |-> done, panic |-> panic, events |-> events]

\* one static shared by all threads: a thread finds in the slot what the
\* thread scheduled before it left there
SharedStatic(own, left) == left

\* __private.rs thread_local!: the slot a thread finds when it is scheduled
\* is its own, whatever the thread scheduled before it left in its slot
ThreadLocal(own, left) == own

\* thread th has a step to take
Runnable(th) == th.pc # "panicked" /\ ~(th.pc = "test" /\ th.plan = << >>)

\* the scheduler takes the scheduled thread off the processor and puts the
\* other thread on it
ContextSwitch ==
    /\ is_some(other)
    /\ Runnable(unwrap(other))
    /\ plan' = unwrap(other).plan
    /\ FAILPOINTS' = ThreadLocal(unwrap(other).FAILPOINTS, FAILPOINTS)
    /\ pc' = unwrap(other).pc
    /\ cur' = unwrap(other).cur
    /\ ip' = unwrap(other).ip
    /\ trace' = unwrap(other).trace
    /\ effects' = unwrap(other).effects
    /\ runs' = unwrap(other).runs
    /\ done' = unwrap(other).done
    /\ panic' = unwrap(other).panic
    /\ events' = unwrap(other).events
    /\ other' = Some(Scheduled)
    /\ tid' = 3 - tid
    /\ UNCHANGED closure

\* the closures of the two-thread runs
ThreadBodies == {b \in GeneratedBodies : Len(b) <= MaxThreadLen}

\* thread 1 runs a session; thread 2 runs a session with the same
\* preference or calls the closure outside of a runner
ThreadPlans ==
    UNION {{<<<<RunCall(p, "written")>>, <<c>>>> :
               c \in {RunCall(p, "written"), DirectCall}} : p \in Branch}

ThreadsInit ==
    /\ closure \in ThreadBodies
    /\ \E tp \in ThreadPlans :
          /\ plan = tp[1]
          /\ other = Some([plan |-> tp[2], FAILPOINTS |-> None, pc |-> "test",
                           cur |-> [how |-> "none",
                                    branch_preference |-> Activate,
                                    sites |-> "written"],
                           ip |-> 0, trace |-> << >>, effects |-> << >>,
                           runs |-> << >>, done |-> << >>, panic |-> None,
                           events |-> << >>])
    /\ FAILPOINTS = None
    /\ pc = "test"
    /\ cur = [how |-> "none", branch_preference |-> Activate,
              sites |-> "written"]
    /\ ip = 0
    /\ trace = << >>
    /\ effects = << >>
    /\ runs = << >>
    /\ done = << >>
    /\ panic = None
    /\ events = << >>
    /\ tid = 1

NextThreads ==
    \/ RunInstall
    \/ RunStart
    \/ StepInjectReturn
    \/ StepInjectOverride
    \/ StepEnableFailpoints
    \/ StepEnd
    \/ RunFinalize
    \/ RunTeardown
    \/ CallDirect
    \/ ContextSwitch

SpecThreads == ThreadsInit /\ [][NextThreads]_vars

(***************************************************************************)
(* A closure whose failpoint names depend on input that differs between    *)
(* runs: each inject_override! of its body passes name() to                *)
(* Label::Failpoint, where name() yields, call after call, the names of a  *)
(* sequence that repeats.                                                  *)
(***************************************************************************)
InjectOverrideDynamic(names) ==
    [op |-> "inject_override_dynamic", names |-> names]

\* the sequences name() repeats
NameSequences == UNION {[1..n -> Names] : n \in 1..MaxAnyPeriod}

DynamicBodies ==
    {[i \in 1..n |-> InjectOverrideDynamic(p)] :
        n \in 1..MaxAnyLen, p \in NameSequences}

\* the number of calls of name() the session has made
RECURSIVE VisitsIn(_)
VisitsIn(rs) ==
    IF rs = << >> THEN 0 ELSE Len(Head(rs).trace) + VisitsIn(Tail(rs))

\* the name the next call of name() yields
NextName(names) ==
    names[((VisitsIn(runs) + Len(trace)) % Len(names)) + 1]

AnyInit == InitWith(DynamicBodies, {<<RunCall(p, "written")>> : p \in Branch})

\* inject_override!(expr, name, alt) with a name computed at run time
StepInjectOverrideDynamic ==
    /\ pc = "func"
    /\ ip <= Len(Body)
    /\ Body[ip].op = "inject_override_dynamic"
    /\ InjectOverrideAt(Failpoint(NextName(Body[ip].names)), FALSE)

NextAny ==
    \/ RunInstall
    \/ RunStart
    \/ StepInjectOverrideDynamic
    \/ StepEnd
    \/ RunFinalize
    \/ RunTeardown

SpecAny == AnyInit /\ [][NextAny]_vars

(***************************************************************************)
(* Vocabulary of the properties                                            *)
(***************************************************************************)
Min(a, b) == IF a <= b THEN a ELSE b

\* the Branch values a run received from visit
Decisions(tr) == [k \in 1..Len(tr) |-> tr[k].branch]

\* the k-th label of a finished run: its k-th failpoint, then Finished
LabelAt(tr, k) == IF k <= Len(tr) THEN tr[k].label ELSE Finished

SameDecisionsBefore(t1, t2, k) ==
    \A j \in 1..(k - 1) : t1[j].branch = t2[j].branch

\* in the finished runs rs the labels are a function of the Branch values
\* returned so far
DeterministicRuns(rs) ==
    \A i, j \in 1..Len(rs) :
        \A k \in 1..(Min(Len(rs[i].trace), Len(rs[j].trace)) + 1) :
            SameDecisionsBefore(rs[i].trace, rs[j].trace, k)
                => LabelAt(rs[i].trace, k) = LabelAt(rs[j].trace, k)

\* the same, the run in progress included
DeterministicSoFar ==
    /\ DeterministicRuns(runs)
    /\ pc \in {"func", "finalize", "panicked"} =>
        \A i \in 1..Len(runs) :
            \A k \in 1..Min(Len(trace), Len(runs[i].trace) + 1) :
                SameDecisionsBefore(trace, runs[i].trace, k)
                    => trace[k].label = LabelAt(runs[i].trace, k)

Tree == unwrap(FAILPOINTS).tree

NodeIds(t) == 0..(Len(t.nodes) - 1)

NodeAt(t, id) == t.nodes[id + 1]

\* the (label, branch) pairs on the way from the root to a back-edge
RECURSIVE PathOf(_, _)
PathOf(t, edge) ==
    IF is_none(edge) THEN << >>
    ELSE Append(PathOf(t, NodeAt(t, unwrap(edge).node_id).parent),
                [label |-> unwrap(edge).label, branch |-> unwrap(edge).branch])

\* finalize has just returned Stop
AtStop == pc = "teardown"

\* finalize has just returned or panicked: the only step that changes runs
AfterFinalize ==
    \/ pc \in {"start", "teardown"} /\ runs # << >>
    \/ pc = "panicked" /\ is_some(panic) /\ unwrap(panic) \in AssertFailed

\* a call of the test body has just returned: the only step that changes
\* done
AfterCall ==
    /\ pc = "test"
    /\ done # << >>
    /\ "caught" \notin DOMAIN done[Len(done)]

(***************************************************************************)
(* Properties                                                              *)
(***************************************************************************)

\* C1 (termination): a session whose runs so far show labels that are a
\* function of the Branch values returned reaches, after finitely many
\* runs, a finalize that returns Stop, and Runner::run then returns Ok(())
\* to the test body with the session's runs recorded.
C1_Termination ==
    (pc = "start" /\ runs = << >>)
        ~> (\/ pc = "test" /\ done # << >>
               /\ done[Len(done)].call.how = "run"
               /\ done[Len(done)].runs[Len(done[Len(done)].runs)].status
                      = "Stop"
            \/ ~DeterministicSoFar)

C1_Witness ==
    /\ pc = "test"
    /\ done # << >>
    /\ done[Len(done)].call.how = "run"
    /\ Len(done[Len(done)].runs) >= 3
    /\ DeterministicRuns(done[Len(done)].runs)

\* C2 (coverage): when finalize returns Stop in a deterministic session,
\* every non-final node has a child in its Activate fan-out and a child in
\* its Skip fan-out, and every node without children is final.
C2_Coverage ==
    (AtStop /\ DeterministicRuns(runs)) =>
        \A id \in NodeIds(Tree) :
            LET node == NodeAt(Tree, id)
            IN  /\ ~node.is_final =>
                      /\ MapLen(Nexts(node, Activate).nodes) >= 1
                      /\ MapLen(Nexts(node, Skip).nodes) >= 1
                /\ (MapLen(Nexts(node, Activate).nodes) = 0
                       /\ MapLen(Nexts(node, Skip).nodes) = 0)
                      => node.is_final

C2_Witness ==
    /\ AtStop
    /\ DeterministicRuns(runs)
    /\ Cardinality({id \in NodeIds(Tree) : ~NodeAt(Tree, id).is_final}) >= 2
    /\ Cardinality({id \in NodeIds(Tree) : NodeAt(Tree, id).is_final}) >= 3

\* C3 (uniqueness): in a deterministic session no two runs receive the same
\* sequence of Branch values, and when finalize returns Stop the path to
\* each final node is the trace of exactly one run.
C3_Uniqueness ==
    (AfterFinalize /\ DeterministicRuns(runs)) =>
        /\ \A i, j \in 1..Len(runs) :
               i # j => Decisions(runs[i].trace) # Decisions(runs[j].trace)
        /\ AtStop =>
               \A id \in NodeIds(Tree) :
                   NodeAt(Tree, id).is_final =>
                       Cardinality({i \in 1..Len(runs) :
                           runs[i].trace = PathOf(Tree, NodeAt(Tree, id).parent)})
                         = 1

C3_Witness ==
    /\ AtStop
    /\ DeterministicRuns(runs)
    /\ Len(runs) >= 4
    /\ \E i \in 1..Len(runs) : Len(runs[i].trace) >= 2

\* s comes before t in the lexicographic order in which branch p is the
\* smaller one
LexBefore(p, s, t) ==
    \E k \in 1..Min(Len(s), Len(t)) :
        /\ \A j \in 1..(k - 1) : s[j] = t[j]
        /\ s[k] = p
        /\ t[k] # p

Results(rs) == [i \in 1..Len(rs) |-> rs[i].result]

\* C4 (run order): in a deterministic session with branch preference p the
\* runs occur in strictly increasing lexicographic order of their decision
\* sequences, p first; the first run receives p at every failpoint; one
\* early-return failpoint gives [Err(1), Ok] under Activate and
\* [Ok, Err(1)] under Skip.
C4_RunOrder ==
    LET p == cur.branch_preference
    IN  (cur.how = "run" /\ DeterministicSoFar) =>
            /\ \A i, j \in 1..Len(runs) :
                   i < j => LexBefore(p, Decisions(runs[i].trace),
                                         Decisions(runs[j].trace))
            /\ runs # << >> =>
                   \A k \in 1..Len(runs[1].trace) : runs[1].trace[k].branch = p
            /\ (runs = << >> /\ pc \in {"func", "finalize"}) =>
                   \A k \in 1..Len(trace) : trace[k].branch = p
            /\ (AtStop /\ Len(Body) = 1 /\ Body[1].op = "inject_return") =>
                   Results(runs) = IF p = Activate
                                   THEN <<Err(1), Ok>>
                                   ELSE <<Ok, Err(1)>>

C4_Witness ==
    /\ AtStop
    /\ cur.branch_preference = Skip
    /\ DeterministicRuns(runs)
    /\ Len(runs) >= 4
    /\ Len(Body) = 3
    /\ Body[3].op = "inject_return"

\* the body is k early-return failpoints, the i-th returning Err(i)
SequentialReturns(b) == \A i \in 1..Len(b) : b[i].op = "inject_return"

Count(rs, res) == Cardinality({i \in 1..Len(rs) : rs[i].result = res})

\* C6: a closure of k sequential early-return failpoints followed by Ok(())
\* is run exactly k + 1 times, each of Err(1), ..., Err(k) and Ok(()) being
\* produced exactly once; for k = 0 the first finalize returns Stop.
C6_SequentialReturns ==
    (cur.how = "run" /\ SequentialReturns(Body)) =>
        LET k == Len(Body)
        IN  /\ Len(runs) <= k + 1
            /\ AtStop =>
                  /\ Len(runs) = k + 1
                  /\ \A n \in 1..k : Count(runs, Err(n)) = 1
                  /\ Count(runs, Ok) = 1
            /\ (k = 0 /\ runs # << >>) => runs[1].status = "Stop"
            /\ pc # "panicked"

C6_Witness ==
    /\ AtStop
    /\ SequentialReturns(Body)
    /\ Len(Body) = 3
    /\ Len(runs) = 4

\* how often the decision sequence d occurs among the runs rs
CountDecisions(rs, d) ==
    Cardinality({i \in 1..Len(rs) : Decisions(rs[i].trace) = d})

SameDecisionMultiset(rs1, rs2) ==
    /\ \A i \in 1..Len(rs1) :
           CountDecisions(rs1, Decisions(rs1[i].trace))
               = CountDecisions(rs2, Decisions(rs1[i].trace))
    /\ \A i \in 1..Len(rs2) :
           CountDecisions(rs1, Decisions(rs2[i].trace))
               = CountDecisions(rs2, Decisions(rs2[i].trace))

\* C5 (branch preference changes order only): two deterministic sessions of
\* one closure, one with preference Activate and one with preference Skip,
\* perform the same number of runs and exercise the same multiset of
\* complete decision sequences.
C5_PreferenceOrderOnly ==
    \A i, j \in 1..Len(done) :
        (/\ AfterCall
         /\ done[i].call.how = "run"
         /\ done[j].call.how = "run"
         /\ done[i].call.sites = done[j].call.sites
         /\ done[i].call.branch_preference = Activate
         /\ done[j].call.branch_preference = Skip
         /\ DeterministicRuns(done[i].runs)
         /\ DeterministicRuns(done[j].runs))
        => /\ Len(done[i].runs) = Len(done[j].runs)
           /\ SameDecisionMultiset(done[i].runs, done[j].runs)

C5_Witness ==
    /\ Len(done) = 2
    /\ done[1].call = RunCall(Skip, "written")
    /\ done[2].call = RunCall(Activate, "written")
    /\ DeterministicRuns(done[1].runs)
    /\ DeterministicRuns(done[2].runs)
    /\ Len(done[1].runs) >= 4
    /\ Decisions(done[1].runs[1].trace) # Decisions(done[2].runs[1].trace)

\* the (trace, result) pairs of the runs of a session
TracesAndResults(rs) ==
    [i \in 1..Len(rs) |-> [trace |-> rs[i].trace, result |-> rs[i].result]]

\* C7 (disable scoping): a failpoint between enable_failpoints(false) and
\* the later enable_failpoints(true) is never passed to visit; the session
\* of the closure as written and the session of the closure with those call
\* sites removed have the same number of runs and the same (label, branch)
\* pairs and result in every run; three failpoints with the second one
\* disabled yield exactly Ok(()), Err(1) and Err(3).
C7_DisableScoping ==
    /\ (pc \in {"func", "finalize", "teardown"} /\ cur.sites = "written") =>
           \A e \in 1..Len(effects) :
               (effects[e].at <= Len(closure)
                /\ Enclosed(closure, effects[e].at)) => ~effects[e].visited
    /\ \A i, j \in 1..Len(done) :
           (/\ AfterCall
            /\ done[i].call.how = "run"
            /\ done[j].call.how = "run"
            /\ done[i].call.sites = "written"
            /\ done[j].call.sites = "removed"
            /\ done[i].call.branch_preference = done[j].call.branch_preference)
           => TracesAndResults(done[i].runs) = TracesAndResults(done[j].runs)
    /\ (AtStop /\ closure = TestEnableDisable) =>
           /\ Len(runs) = 3
           /\ Count(runs, Ok) = 1
           /\ Count(runs, Err(1)) = 1
           /\ Count(runs, Err(3)) = 1

C7_Witness ==
    /\ Len(done) = 2
    /\ closure = TestEnableDisable
    /\ done[1].call.sites = "written"
    /\ done[2].call.sites = "removed"
    /\ WithoutDisabledSites(closure) # closure
    /\ Len(done[2].runs) = 3

\* C8 (no-op when disengaged): a primitive executed while no engine is
\* installed falls through (inject_return) or yields expr (inject_override),
\* calls no visit, leaves the slot empty and changes nothing else; the
\* closure called outside of a runner returns Ok(()).
C8_NoOpWhenDisengaged ==
    /\ [][(/\ pc = "func"
           /\ is_none(FAILPOINTS)
           /\ ip <= Len(Body)
           /\ Body[ip].op \in {"inject_return", "inject_override"})
          => /\ is_none(FAILPOINTS')
             /\ trace' = trace
             /\ pc' = "func"
             /\ ip' = ip + 1
             /\ effects' = Append(effects,
                   Effect(IF Body[ip].op = "inject_return"
                          THEN "fallthrough" ELSE "expr", Ok, FALSE))
             /\ UNCHANGED <<closure, plan, cur, runs, done, panic>>]_vars
    /\ [](\A i \in 1..Len(done) :
             (AfterCall /\ done[i].call.how = "direct") =>
                 /\ done[i].runs[1].result = Ok
                 /\ done[i].runs[1].trace = << >>)

C8_Witness ==
    /\ pc = "func"
    /\ cur.how = "direct"
    /\ is_none(FAILPOINTS)
    /\ Len(effects) = 2
    /\ effects[1].out = "fallthrough"
    /\ effects[2].out = "expr"
    /\ done # << >>

\* C10 (no nesting): Runner::run called while an engine is installed fails
\* with the assertion "failpoints state double initialization" and leaves
\* the installed engine's tree, cursor and enabled flag as they were.
C10_NoNesting ==
    [][(/\ pc = "func"
        /\ is_some(FAILPOINTS)
        /\ effects' = Append(effects, Effect("Runner::run", Ok, FALSE)))
       => /\ pc' = "panicked"
          /\ panic' = Some(DoubleInit)
          /\ FAILPOINTS' = FAILPOINTS]_vars

C10_Witness ==
    /\ pc = "panicked"
    /\ panic = Some(DoubleInit)
    /\ effects # << >>
    /\ effects[Len(effects)].out = "Runner::run"
    /\ Len(runs) >= 1
    /\ Len(trace) >= 1
    /\ ~unwrap(FAILPOINTS).enabled
    /\ Len(Tree.nodes) >= 3

\* C11 (fresh session): whenever the test body is between calls the slot is
\* empty; a session begins with the state Runner::run constructs: enabled,
\* an empty tree, no cursor, no non-determinism witnessed, whatever calls
\* came before it; enable_failpoints called while no engine is installed
\* leaves the slot empty.
C11_FreshSession ==
    /\ pc = "test" => FAILPOINTS = << >>
    /\ (pc = "func" /\ cur.how = "direct") => FAILPOINTS = << >>
    /\ (pc = "start" /\ runs = << >>) =>
           FAILPOINTS =
               <<[enabled |-> TRUE,
                  tree |-> [options |->
                                [branch_preference |-> cur.branch_preference],
                            nodes |-> << >>,
                            roots |-> [nodes |-> << >>,
                                       num_completely_visited |-> 0],
                            current_edge |-> << >>,
                            non_determinism_witnessed |-> FALSE]]>>

C11_Witness ==
    /\ pc = "start"
    /\ runs = << >>
    /\ Len(done) = 1
    /\ done[1].call.how = "direct"
    /\ Len(closure) = 3
    /\ closure[1] = EnableFailpoints(FALSE)
    /\ closure[2].op = "inject_return"

\* C12 (panic in the closure): when the closure panics in a run, the state
\* stays in the slot as it was, and stays there from then on; Runner::run
\* called next on the thread fails with "failpoints state double
\* initialization" and starts no session.
C12_PanicLeavesEngine ==
    /\ [][(panic' = Some(ClosurePanic) /\ panic # Some(ClosurePanic))
          => (is_some(FAILPOINTS') /\ FAILPOINTS' = FAILPOINTS)]_vars
    /\ []((\E i \in 1..Len(done) : "caught" \in DOMAIN done[i])
          => is_some(FAILPOINTS))
    /\ [][(/\ \E i \in 1..Len(done) : "caught" \in DOMAIN done[i]
           /\ pc = "test"
           /\ plan # << >>
           /\ Head(plan).how = "run")
          => /\ pc' = "panicked"
             /\ panic' = Some(DoubleInit)
             /\ FAILPOINTS' = FAILPOINTS
             /\ UNCHANGED <<plan, cur, runs, done>>]_vars

C12_Witness ==
    /\ pc = "panicked"
    /\ panic = Some(DoubleInit)
    /\ Len(done) = 1
    /\ "caught" \in DOMAIN done[1]
    /\ Len(done[1].runs) >= 2
    /\ Len(Tree.nodes) >= 3

\* disable calls minus enable calls among statements j..k of body b
RECURSIVE NetDisables(_, _, _)
NetDisables(b, j, k) ==
    IF k < j THEN 0
    ELSE NetDisables(b, j, k - 1)
             + (IF b[k] = EnableFailpoints(FALSE) THEN 1
                ELSE IF b[k] = EnableFailpoints(TRUE) THEN -1 ELSE 0)

\* statement k is the enable call that matches the disable call at j, the
\* calls pairing up like brackets
MatchingEnable(b, j, k) ==
    /\ j < k
    /\ b[j] = EnableFailpoints(FALSE)
    /\ b[k] = EnableFailpoints(TRUE)
    /\ NetDisables(b, j, k) = 0
    /\ \A m \in j..(k - 1) : NetDisables(b, j, m) > 0

BetweenMatchingPair(b, i) ==
    \E j \in 1..(i - 1) : \E k \in (i + 1)..Len(b) : MatchingEnable(b, j, k)

\* C13 (enable/disable reentrant): in a run no failpoint that lies between
\* an enable_failpoints(false) call and the enable_failpoints(true) call
\* matching it, nested pairs included, is passed to visit.
C13_Reentrant ==
    (pc \in {"func", "finalize", "teardown"} /\ cur.sites = "written") =>
        \A e \in 1..Len(effects) :
            (effects[e].at <= Len(closure)
             /\ BetweenMatchingPair(closure, effects[e].at))
                => ~effects[e].visited

\* the states of the threads
Threads == {Scheduled} \cup {other[i] : i \in 1..Len(other)}

\* C14 (thread isolation): a step of one thread leaves the other thread's
\* slot and run state as they were, and a thread finds its slot as it left
\* it; on a thread that runs no session every failpoint takes Skip without
\* a visit call and the slot stays empty, whatever the other thread's
\* session is doing; no thread panics; two threads that make the same call
\* record the same runs under every interleaving.
C14_ThreadIsolation ==
    /\ [][tid' = tid => other' = other]_vars
    /\ [][tid' # tid =>
             /\ FAILPOINTS' = unwrap(other).FAILPOINTS
             /\ unwrap(other').FAILPOINTS = FAILPOINTS]_vars
    /\ [](\A th \in Threads :
             /\ th.pc # "panicked"
             /\ th.cur.how = "direct" =>
                   /\ th.FAILPOINTS = << >>
                   /\ th.trace = << >>
                   /\ \A e \in 1..Len(th.effects) :
                          /\ ~th.effects[e].visited
                          /\ th.effects[e].out \in
                                {"fallthrough", "expr", "enable_failpoints",
                                 "end"})
    /\ [](\A t1, t2 \in Threads :
             \A i \in 1..Len(t1.done) : \A j \in 1..Len(t2.done) :
                 t1.done[i].call = t2.done[j].call
                     => t1.done[i].runs = t2.done[j].runs)

\* thread 2 is in a direct call of the closure and has passed a failpoint
\* while the session of thread 1 is in its second run, and both threads
\* have been scheduled since
C14_Witness ==
    /\ tid = 2
    /\ pc = "func"
    /\ cur.how = "direct"
    /\ Len(effects) = 2
    /\ effects[1].out = "fallthrough"
    /\ unwrap(other).pc = "func"
    /\ Len(unwrap(other).runs) = 1
    /\ Len(unwrap(other).trace) = 1
    /\ is_some(unwrap(other).FAILPOINTS)

\* how often event x occurs in the run in progress
Occurrences(x) == Cardinality({k \in 1..Len(events) : events[k] = x})

\* the position of event x in the run in progress, 0 if it does not occur
Position(x) ==
    IF \E k \in 1..Len(events) : events[k] = x
    THEN CHOOSE k \in 1..Len(events) : events[k] = x
    ELSE 0

\* the Branch decided for the statement that left effect e: what visit
\* returned to it, or Skip if it called no visit
DecisionOf(e) ==
    IF effects[e].visited
    THEN trace[Cardinality({k \in 1..e : effects[k].visited})].branch
    ELSE Skip

\* C15 (evaluation count): inject_override evaluates the wrapped expression
\* once and yields its value when the decision is Skip (visit returned Skip,
\* or no visit was called), and does not evaluate it and yields alt when
\* the decision is Activate; inject_override_with_side_effect evaluates it
\* exactly once in either case, after the visit call if there is one, and
\* yields alt on Activate and the expression's value on Skip.
C15_EvaluationCount ==
    \A e \in 1..Len(effects) :
        LET at == effects[e].at
            evals == Occurrences([ev |-> "eval", at |-> at])
            visit == Position([ev |-> "visit", at |-> at])
            eval == Position([ev |-> "eval", at |-> at])
        IN  (pc \in {"func", "finalize"} /\ effects[e].out \in {"alt", "expr"})
            => /\ effects[e].visited <=> visit # 0
               /\ effects[e].out = (IF DecisionOf(e) = Activate
                                    THEN "alt" ELSE "expr")
               /\ Body[at].op = "inject_override" =>
                      evals = (IF DecisionOf(e) = Activate THEN 0 ELSE 1)
               /\ Body[at].op = "inject_override_with_side_effect" =>
                      /\ evals = 1
                      /\ visit < eval

C15_Witness ==
    /\ pc = "finalize"
    /\ Len(Body) = 2
    /\ Body[1].op = "inject_override_with_side_effect"
    /\ Body[2].op = "inject_override"
    /\ effects[1].out = "alt"
    /\ effects[2].out = "alt"
    /\ events = <<[ev |-> "visit", at |-> 1], [ev |-> "eval", at |-> 1],
                  [ev |-> "visit", at |-> 2]>>

\* C16 (visit always finds an open branch): in a session of any closure,
\* also one whose labels after the same decisions differ between runs,
\* every visit call returns a branch: unreachable!() is never reached.
C16_VisitFindsBranch ==
    /\ panic # Some(Unreachable)
    /\ \A k \in 1..Len(trace) : trace[k].branch \in Branch

\* the fan-outs of tree t: the root fan-out and the two of every node
FanOuts(t) ==
    {t.roots} \cup {Nexts(NodeAt(t, id), b) : id \in NodeIds(t), b \in Branch}

\* the labels of fan-out fe whose child node is exhausted
ExhaustedLabels(t, fe) ==
    {l \in DOMAIN fe.nodes :
        Node_is_completely_visited(NodeAt(t, fe.nodes[l]))}

\* C17 (counter invariant): after every start, visit and finalize of a
\* session, in every fan-out, the root fan-out included,
\* num_completely_visited is the number of its labels whose child node is
\* exhausted.
C17_CounterInvariant ==
    (is_some(FAILPOINTS) /\ pc \in {"start", "func", "finalize", "teardown"})
        => \A fe \in FanOuts(Tree) :
               fe.num_completely_visited
                   = Cardinality(ExhaustedLabels(Tree, fe))

\* C18 (non-determinism flag): in a session non_determinism_witnessed is
\* true exactly if some fan-out, the root fan-out included, holds two or
\* more labels; while it is false, the labels of the runs of the session
\* are a function of the Branch values returned before them.
C18_NonDeterminismFlag ==
    (is_some(FAILPOINTS) /\ pc \in {"start", "func", "finalize", "teardown"})
        => /\ Tree.non_determinism_witnessed
                  <=> \E fe \in FanOuts(Tree) : MapLen(fe.nodes) >= 2
           /\ ~Tree.non_determinism_witnessed => DeterministicSoFar

C18_Witness ==
    /\ pc = "func"
    /\ is_some(FAILPOINTS)
    /\ Tree.non_determinism_witnessed
    /\ MapLen(Tree.roots.nodes) = 1
    /\ \E id \in NodeIds(Tree) : \E b \in Branch :
           MapLen(Nexts(NodeAt(Tree, id), b).nodes) = 2

\* the ids of the nodes registered in fan-out fe
Children(fe) == {fe.nodes[l] : l \in DOMAIN fe.nodes}

\* C19 (back-edge invariant): every node that is not registered in the
\* root fan-out has a back-edge (node_id, branch, label), and the fan-out
\* nodes[node_id].nexts[branch] maps that label to the node's id.
C19_BackEdge ==
    is_some(FAILPOINTS) =>
        \A id \in NodeIds(Tree) \ Children(Tree.roots) :
            LET node == NodeAt(Tree, id)
            IN  /\ is_some(node.parent)
                /\ LET edge == unwrap(node.parent)
                       fe == Nexts(NodeAt(Tree, edge.node_id), edge.branch)
                   IN  /\ edge.label \in DOMAIN fe.nodes
                       /\ fe.nodes[edge.label] = id

\* node has a child in one of its fan-outs
HasChildren(node) ==
    \E b \in Branch : MapLen(Nexts(node, b).nodes) >= 1

\* C20 as stated (final XOR children): after every start, visit and
\* finalize every node is final or has a child in one of its two fan-outs,
\* and not both; the cursor never points at a final node.
C20_FinalXorChildren ==
    is_some(FAILPOINTS) =>
        /\ \A id \in NodeIds(Tree) :
               NodeAt(Tree, id).is_final # HasChildren(NodeAt(Tree, id))
        /\ is_some(Tree.current_edge) =>
               ~NodeAt(Tree, unwrap(Tree.current_edge).node_id).is_final

\* C20 (amended): after every start, visit and finalize no node is both
\* final and the parent of a child, so a final node never acquires a child;
\* a node that is neither is the node the cursor points at, which visit
\* has returned a branch for and the run has not yet left; the cursor
\* never points at a final node.
C20_FinalXorChildrenButCursor ==
    is_some(FAILPOINTS) =>
        /\ \A id \in NodeIds(Tree) :
               LET node == NodeAt(Tree, id)
               IN  /\ ~(node.is_final /\ HasChildren(node))
                   /\ (~node.is_final /\ ~HasChildren(node)) =>
                          /\ pc \in {"func", "finalize"}
                          /\ Tree.current_edge # << >>
                          /\ Tree.current_edge[1].node_id = id
        /\ is_some(Tree.current_edge) =>
               ~NodeAt(Tree, unwrap(Tree.current_edge).node_id).is_final

C20_Witness ==
    /\ pc = "func"
    /\ is_some(FAILPOINTS)
    /\ is_some(Tree.current_edge)
    /\ ~HasChildren(NodeAt(Tree, unwrap(Tree.current_edge).node_id))
    /\ \E id \in NodeIds(Tree) : NodeAt(Tree, id).is_final
    /\ \E id \in NodeIds(Tree) :
           /\ HasChildren(NodeAt(Tree, id))
           /\ is_some(NodeAt(Tree, id).parent)

\* C21 (counter bound): in a session of any closure, after every finalize
\* the counter of every fan-out is at most the number of its labels, a
\* fan-out without labels has counter 0 and is not exhausted, and no
\* assert! of finalize has failed.
C21_CounterBound ==
    /\ is_some(panic) => unwrap(panic) \notin AssertFailed
    /\ is_some(FAILPOINTS) =>
           \A fe \in FanOuts(Tree) :
               /\ fe.num_completely_visited <= MapLen(fe.nodes)
               /\ MapLen(fe.nodes) = 0 =>
                      /\ fe.num_completely_visited = 0
                      /\ ~ForwardEdges_is_completely_visited(fe)

\* a finalize has just counted the second of two labels of a fan-out below
\* the root in a session that witnessed non-determinism
C21_Witness ==
    /\ pc = "start"
    /\ is_some(FAILPOINTS)
    /\ Tree.non_determinism_witnessed
    /\ \E id \in NodeIds(Tree) : \E b \in Branch :
           LET fe == Nexts(NodeAt(Tree, id), b)
           IN  /\ MapLen(fe.nodes) = 2
               /\ fe.num_completely_visited = 2

\* the nodes, and the final nodes, of the tree before the k-th run of the
\* session
NodesBefore(k) == IF k = 1 THEN 0 ELSE runs[k - 1].nodes
FinalsBefore(k) == IF k = 1 THEN 0 ELSE runs[k - 1].finals

\* C22 (progress): every run of a session leaves the tree with a node that
\* did not exist before the run or with a final node that was not final
\* before it, and the finalize that ends the run leaves the counter of the
\* fan-out that holds the run's final node larger than it was.
C22_Progress ==
    /\ [](\A k \in 1..Len(runs) :
             \/ runs[k].nodes > NodesBefore(k)
             \/ runs[k].finals > FinalsBefore(k))
    /\ [][(pc = "finalize" /\ pc' \in {"start", "teardown"})
          => ParentNexts(unwrap(FAILPOINTS').tree).num_completely_visited
                 > ParentNexts(Tree).num_completely_visited]_vars

\* fan-out g keeps what fan-out f holds: every label with its child, a
\* counter that is not smaller, and exhaustion
KeepsFanOut(f, g) ==
    /\ \A l \in DOMAIN f.nodes :
           l \in DOMAIN g.nodes /\ g.nodes[l] = f.nodes[l]
    /\ g.num_completely_visited >= f.num_completely_visited
    /\ ForwardEdges_is_completely_visited(f)
           => ForwardEdges_is_completely_visited(g)

\* tree u keeps what tree t holds
KeepsTree(t, u) ==
    /\ Len(u.nodes) >= Len(t.nodes)
    /\ KeepsFanOut(t.roots, u.roots)
    /\ \A id \in NodeIds(t) :
           /\ NodeAt(u, id).parent = NodeAt(t, id).parent
           /\ NodeAt(t, id).is_final => NodeAt(u, id).is_final
           /\ \A b \in Branch :
                  KeepsFanOut(Nexts(NodeAt(t, id), b), Nexts(NodeAt(u, id), b))
           /\ Node_is_completely_visited(NodeAt(t, id))
                  => Node_is_completely_visited(NodeAt(u, id))

\* C23 (monotonicity): no step of a session shrinks the node vector,
\* changes or removes a label's child or a node's back-edge, clears
\* is_final, lowers a counter, or makes an exhausted fan-out or node not
\* exhausted.
C23_Monotone ==
    [][(is_some(FAILPOINTS) /\ is_some(FAILPOINTS'))
       => KeepsTree(Tree, unwrap(FAILPOINTS').tree)]_vars

\* a session that witnessed non-determinism has made three runs and goes on
\* with an exhausted node that is not final
C23_Witness ==
    /\ pc = "start"
    /\ Len(runs) >= 3
    /\ Tree.non_determinism_witnessed
    /\ \E id \in NodeIds(Tree) :
           /\ ~NodeAt(Tree, id).is_final
           /\ Node_is_completely_visited(NodeAt(Tree, id))

\* C24 (start frame): the start of a run sets current_edge to None and
\* leaves the nodes, the root fan-out, non_determinism_witnessed, the
\* options and the enabled flag as they were; start applied twice gives the
\* state start applied once gives.
C24_StartFrame ==
    /\ [][(pc = "start" /\ pc' = "func")
          => /\ is_some(FAILPOINTS')
             /\ unwrap(FAILPOINTS').enabled = unwrap(FAILPOINTS).enabled
             /\ unwrap(FAILPOINTS').tree.current_edge = << >>
             /\ unwrap(FAILPOINTS').tree.nodes = Tree.nodes
             /\ unwrap(FAILPOINTS').tree.roots = Tree.roots
             /\ unwrap(FAILPOINTS').tree.options = Tree.options
             /\ unwrap(FAILPOINTS').tree.non_determinism_witnessed
                    = Tree.non_determinism_witnessed]_vars
    /\ [](is_some(FAILPOINTS)
             => TreeStart(TreeStart(Tree)) = TreeStart(Tree))

\* start has just cleared the cursor that the visits of the run before had
\* set, in a session whose failpoints that run left disabled
C24_Witness ==
    /\ pc = "func"
    /\ ip = 1
    /\ Len(runs) >= 1
    /\ Len(runs[Len(runs)].trace) >= 2
    /\ Tree.current_edge = << >>
    /\ Len(Tree.nodes) >= 3
    /\ ~unwrap(FAILPOINTS).enabled

\* C25 (soundness of the non-determinism flag): when finalize returns Stop
\* with non_determinism_witnessed still false, whatever the closure, every
\* node that is not final has exactly one label and counter 1 in each of
\* its two fan-outs, every node without children is final, the root
\* fan-out has one label, and no two runs of the session received the same
\* sequence of Branch values.
C25_FlagSoundness ==
    (AtStop /\ ~Tree.non_determinism_witnessed) =>
        /\ \A id \in NodeIds(Tree) :
               LET node == NodeAt(Tree, id)
               IN  /\ ~node.is_final =>
                          \A b \in Branch :
                              /\ MapLen(Nexts(node, b).nodes) = 1
                              /\ Nexts(node, b).num_completely_visited = 1
                   /\ ~HasChildren(node) => node.is_final
        /\ MapLen(Tree.roots.nodes) = 1
        /\ \A i, j \in 1..Len(runs) :
               i # j => Decisions(runs[i].trace) # Decisions(runs[j].trace)

C25_Witness ==
    /\ AtStop
    /\ ~Tree.non_determinism_witnessed
    /\ Len(runs) >= 5
    /\ \E i \in 1..Len(runs) : Len(runs[i].trace) = 1
    /\ \E i \in 1..Len(runs) : Len(runs[i].trace) = 3

\* C26 (writers of the enabled flag): the flag is TRUE when Runner::run
\* installs the state; after that only a call of enable_failpoints changes
\* it, to the value passed; the start of a run, a failpoint, the end of the
\* closure and finalize leave it as it is, so it is carried from the end
\* of a run to the start of the next.
C26_EnabledWriters ==
    /\ [][(is_none(FAILPOINTS) /\ is_some(FAILPOINTS'))
          => unwrap(FAILPOINTS').enabled]_vars
    /\ [][(/\ is_some(FAILPOINTS)
           /\ is_some(FAILPOINTS')
           /\ unwrap(FAILPOINTS').enabled # unwrap(FAILPOINTS).enabled)
          => /\ pc = "func"
             /\ ip <= Len(Body)
             /\ Body[ip].op = "enable_failpoints"
             /\ unwrap(FAILPOINTS').enabled = Body[ip].enable]_vars
    /\ [][(pc \in {"finalize", "start"} /\ is_some(FAILPOINTS'))
          => unwrap(FAILPOINTS').enabled = unwrap(FAILPOINTS).enabled]_vars

\* the third run of a session starts with failpoints disabled
C26_Witness ==
    /\ pc = "func"
    /\ ip = 1
    /\ Len(runs) = 2
    /\ ~unwrap(FAILPOINTS).enabled
    /\ Len(Body) >= 2
    /\ Body[1].op \in {"inject_return", "inject_override"}

\* 2^k
RECURSIVE Pow2(_)
Pow2(k) == IF k = 0 THEN 1 ELSE 2 * Pow2(k - 1)

\* the closure passes k >= 1 times through inject_override of one name and
\* does nothing else
SameNameLoop(b) ==
    /\ Len(b) >= 1
    /\ b[1].op = "inject_override"
    /\ \A i \in 1..Len(b) : b[i] = InjectOverride(b[1].name)

\* C27 (decisions keyed by path position): a session of a closure that
\* passes k times through inject_override of the same name ends after
\* exactly 2^k runs, every run makes k decisions, and the decision vectors
\* of the runs are all of {Skip, Activate}^k, each taken once.
C27_PathKeyed ==
    (/\ cur.how = "run"
     /\ SameNameLoop(Body)
     /\ panic = None)
        => /\ \A i \in 1..Len(runs) : Len(runs[i].trace) = Len(Body)
           /\ \A i, j \in 1..Len(runs) :
                  Decisions(runs[i].trace) = Decisions(runs[j].trace)
                      => i = j
           /\ AtStop =>
                  /\ Len(runs) = Pow2(Len(Body))
                  /\ {Decisions(runs[i].trace) : i \in 1..Len(runs)}
                         = [1..Len(Body) -> Branch]
                  /\ ~Tree.non_determinism_witnessed

\* a session of a closure with three failpoints of one name has ended
C27_Witness ==
    /\ AtStop
    /\ cur.how = "run"
    /\ SameNameLoop(Body)
    /\ Len(Body) = 3
    /\ Len(runs) = 8

\* the places of tree t that hold a fan-out: the root, and each branch of
\* each node
FanOutPlaces(t) ==
    {<<"roots">>} \cup {<<"nexts", id, b>> : id \in NodeIds(t), b \in Branch}

FanOutIn(t, place) ==
    IF place = <<"roots">> THEN t.roots
    ELSE Nexts(NodeAt(t, place[2]), place[3])

\* the (fan-out, label) entries of t whose target is node id
EntriesOf(t, id) ==
    {e \in UNION {{<<pl, l>> : l \in DOMAIN FanOutIn(t, pl).nodes} :
                      pl \in FanOutPlaces(t)} :
        FanOutIn(t, e[1]).nodes[e[2]] = id}

\* the fan-out the back-edge of a node says the node is registered in
HomeOf(node) ==
    IF is_none(node.parent) THEN <<"roots">>
    ELSE <<"nexts", unwrap(node.parent).node_id, unwrap(node.parent).branch>>

\* the number of back-edges from node id to the root, or -1 if the walk
\* has not reached the root after fuel steps
RECURSIVE WalkToRoot(_, _, _)
WalkToRoot(t, id, fuel) ==
    IF is_none(NodeAt(t, id).parent) THEN 0
    ELSE IF fuel = 0 THEN -1
    ELSE LET up == WalkToRoot(t, unwrap(NodeAt(t, id).parent).node_id,
                              fuel - 1)
         IN  IF up = -1 THEN -1 ELSE up + 1

\* C28 (tree well-formedness): in every state with an engine installed,
\* every node id is the target of exactly one (fan-out, label) entry of
\* the tree; the entry is in the root fan-out if the node has no
\* back-edge, and in nodes[parent.node_id].nexts[parent.branch] otherwise;
\* the parent's id is smaller than the node's, every entry targets an
\* existing node, and the walk along the back-edges reaches the root.
C28_WellFormed ==
    is_some(FAILPOINTS) =>
        /\ \A id \in NodeIds(Tree) :
               /\ Cardinality(EntriesOf(Tree, id)) = 1
               /\ \A e \in EntriesOf(Tree, id) : e[1] = HomeOf(NodeAt(Tree, id))
               /\ is_some(NodeAt(Tree, id).parent) =>
                      /\ unwrap(NodeAt(Tree, id).parent).node_id \in NodeIds(Tree)
                      /\ unwrap(NodeAt(Tree, id).parent).node_id < id
               /\ WalkToRoot(Tree, id, Len(Tree.nodes)) \in 0..id
        /\ \A pl \in FanOutPlaces(Tree) :
               \A l \in DOMAIN FanOutIn(Tree, pl).nodes :
                   FanOutIn(Tree, pl).nodes[l] \in NodeIds(Tree)
        /\ is_some(Tree.current_edge) =>
               unwrap(Tree.current_edge).node_id \in NodeIds(Tree)

\* a tree with two entries in the root fan-out, a fan-out below the root
\* with two entries, and a node two back-edges away from the root
C28_Witness ==
    /\ is_some(FAILPOINTS)
    /\ MapLen(Tree.roots.nodes) = 2
    /\ \E id \in NodeIds(Tree) : \E b \in Branch :
           MapLen(Nexts(NodeAt(Tree, id), b).nodes) = 2
    /\ \E id \in NodeIds(Tree) : WalkToRoot(Tree, id, Len(Tree.nodes)) >= 2

====
